---- MODULE Spec2Model ----
(***************************************************************************)
(* Classroom chatbot backend (Flask + Upstash Redis REST + Qwen LLM API). *)
(*                                                                         *)
(* The model has three layers, each translated from the source:           *)
(*   - the Redis keyspace reached through RedisDB._execute_command         *)
(*     (the conversation, student_conversations, student and stats keys), *)
(*     every key with the expiry Redis keeps for it;                       *)
(*   - the RedisDB methods, one action per Redis command they issue, so    *)
(*     that two handlers interleave exactly where the code can;            *)
(*   - the HTTP handlers of index.py (POST /chat and the session routes)   *)
(*     and call_qwen_api with the prompt-chaining workflows around it.     *)
(***************************************************************************)
EXTENDS Integers, Sequences, FiniteSets, TLC

\* ------------------------------------------------------------------------
\* Bounds of the model
\* ------------------------------------------------------------------------
MaxTicks == 3        \* number of clock advances explored
TickDays == 15       \* days the clock advances per tick
MaxFaults == 1       \* Redis commands that may fail in one behaviour
MaxRequests == 2     \* HTTP requests one behaviour starts
MaxCalls == 3        \* requests and direct RedisDB calls one behaviour starts
MaxRetriesArg == 3   \* largest max_retries handed to call_qwen_api directly
MaxIndexCalls == 4   \* RedisDB calls one behaviour of the index specification starts

\* ------------------------------------------------------------------------
\* Program constants
\* ------------------------------------------------------------------------
DaySeconds == 86400          \* the 86400 of every ex=86400*N
ConvTtlDays == 30            \* conversation:* and student_conversations:*
StudentTtlDays == 365        \* student:* and stats:*
DefaultMaxRetries == 2       \* call_qwen_api(..., max_retries=2)
MaxMessageLen == 2000        \* len(user_message) > 2000
HistoryLimit == 20           \* conversation['messages'][-20:]

ConvTtl == DaySeconds * ConvTtlDays
StudentTtl == DaySeconds * StudentTtlDays

\* ------------------------------------------------------------------------
\* Value domains
\* ------------------------------------------------------------------------
Procs == {1, 2}
Students == {"S1", "S2"}
ConvIds == {"c1", "c2"}
NoId == "none"               \* Python None / a missing session_id
NoExpiry == -1               \* a key without TTL

VARIABLES
    available,   \* RedisDB.available, fixed by __init__
    apiKey,      \* bool(API_KEY)
    now,         \* the Redis server's clock, in seconds
    ticks,       \* clock advances so far
    conv,        \* conversation:<id> keys
    sidx,        \* student_conversations:<student> sets
    students,    \* student:<id> keys
    stats,       \* stats:<id> hashes
    faults,      \* Redis commands that failed so far
    issued,      \* ids uuid.uuid4() has returned so far
    nreq,        \* requests started so far
    proc         \* per handler thread: position, locals, response

vars == <<available, apiKey, now, ticks, conv, sidx, students, stats,
          faults, issued, nreq, proc>>

store == <<conv, sidx, students, stats>>

\* ------------------------------------------------------------------------
\* The Redis keyspace
\* ------------------------------------------------------------------------
NoConv == [exists |-> FALSE, student_id |-> "-", created_at |-> 0,
           message_count |-> 0, messages |-> <<>>, exp |-> NoExpiry]

NoSet == [exists |-> FALSE, members |-> {}, exp |-> NoExpiry]

NoStudent == [exists |-> FALSE, login_count |-> 0, exp |-> NoExpiry]

NoStats == [exists |-> FALSE, total_messages |-> 0, total_conversations |-> 0,
            exp |-> NoExpiry]

Msg(role, content) == [role |-> role, content |-> content]

\* A key is gone once its expiry time has been reached.
Expired(k, t) == k.exists /\ k.exp # NoExpiry /\ k.exp <= t

\* SET key value EX ttl
RedisSet(value, ttl, t) == [value EXCEPT !.exists = TRUE, !.exp = t + ttl]

\* SADD key member: creates the set without TTL, keeps the TTL of an existing one
RedisSadd(s, member) ==
    IF s.exists THEN [s EXCEPT !.members = @ \cup {member}]
    ELSE [exists |-> TRUE, members |-> {member}, exp |-> NoExpiry]

\* SREM key member: a set that becomes empty is deleted
RedisSrem(s, member) ==
    IF ~s.exists THEN s
    ELSE IF s.members \ {member} = {} THEN NoSet
    ELSE [s EXCEPT !.members = @ \ {member}]

\* EXPIRE key ttl: no effect on a missing key
RedisExpire(k, ttl, t) == IF k.exists THEN [k EXCEPT !.exp = t + ttl] ELSE k

\* ------------------------------------------------------------------------
\* RedisDB._execute_command: a command reaches Redis or fails (HTTP error,
\* timeout, non-200), in which case it returns None and Redis is unchanged.
\* ------------------------------------------------------------------------
CmdOutcomes == IF faults < MaxFaults THEN {TRUE, FALSE} ELSE {TRUE}

Fault(ok) == faults' = IF ok THEN faults ELSE faults + 1

\* ------------------------------------------------------------------------
\* Handler threads.  One record per thread holds the request, the locals of
\* the functions on its call stack and, at the end, the response.
\*   pc   the next Redis command or HTTP attempt the thread will issue
\*   op   the entry point it runs (a route of index.py or a RedisDB method)
\*   ctx  the call site inside op that the current RedisDB method returns to
\* ------------------------------------------------------------------------
NoResult == [raised |-> "-", kind |-> "-", content |-> ""]

InitProc ==
    [pc |-> "idle", op |-> "-", ctx |-> "-",
     is_json |-> TRUE, body_ok |-> TRUE,
     message |-> "", client_sid |-> NoId, session_id |-> NoId,
     student_id |-> "-", llm_type |-> "-",
     messages |-> <<>>,          \* chat: the list handed to route_llm_call
     snap |-> NoConv,            \* add_message_to_conversation: conv
     deleted |-> NoConv,         \* delete_*: the conversation found
     role |-> "-", content |-> "-",
     stage |-> "-", ethics |-> <<>>, instr |-> <<>>,
     calls |-> <<>>,             \* call_qwen_api invocations of this request
     max_retries |-> 0, attempt |-> 0,
     sleeps |-> <<>>,            \* time.sleep arguments of this invocation
     posts |-> <<>>,             \* outcome of every requests.post of this invocation
     nposts |-> 0,               \* requests.post calls of this request
     result |-> NoResult,        \* what the last call_qwen_api returned or raised
     reply |-> "",
     writes |-> <<>>,            \* return values of the RedisDB writes
     hstats |-> NoStats,
     cmds |-> 0,                 \* Redis commands this request has issued
     started |-> 0,              \* the clock when the request started
     conv_ids |-> {},            \* get_student_conversations: conv_ids
     todo |-> {},                \* the part of a for loop still to run
     cur |-> NoId,               \* the loop variable
     fallback |-> FALSE,         \* _get_student_conversations_fallback was called
     convs |-> <<>>,             \* conversations / the list returned
     raw_id |-> "",              \* login: data.get('student_id', '')
     group |-> "-",              \* login: group_info['group_id']
     login_count |-> 0,          \* update_student_login: student['login_count']
     status |-> 0, success |-> FALSE]

\* _execute_command posts one more command to the Redis REST endpoint
Sent(r) == [r EXCEPT !.cmds = @ + 1]

Done(r, status, success) ==
    [r EXCEPT !.pc = "done", !.status = status, !.success = success]

\* str.strip() on the texts the model uses
Strip(s) ==
    CASE s \in {"", " ", "  "} -> ""
      [] s = " q1 " -> "q1"
      [] s = " s1 " -> "s1"
      [] OTHER -> s

\* len() of a stripped message
TextLen(s) ==
    CASE s = "" -> 0
      [] s = "LONG" -> MaxMessageLen + 1
      [] OTHER -> 2

\* messages[-n:]
LastN(seq, n) ==
    IF Len(seq) <= n THEN seq ELSE SubSeq(seq, Len(seq) - n + 1, Len(seq))

IdOrder == <<"c1", "c2">>

\* str(uuid.uuid4()): an id no conversation and no client has used
NewId(used) ==
    LET free == {i \in 1..Len(IdOrder) : IdOrder[i] \notin used}
    IN  IdOrder[CHOOSE i \in free : \A j \in free : i <= j]

CanIssue(used) == \E i \in 1..Len(IdOrder) : IdOrder[i] \notin used

\* ------------------------------------------------------------------------
\* call_qwen_api and the prompt-chaining workflows (index.py 621-1020)
\* ------------------------------------------------------------------------

\* What one requests.post / raise_for_status / response.json() can give:
\* a Timeout, another RequestException, or a JSON body that has no 'choices',
\* a null content, or a content string (possibly only white space).
HttpOutcomes ==
    { [kind |-> "timeout", content |-> ""],
      [kind |-> "error", content |-> ""],
      [kind |-> "nochoices", content |-> ""],
      [kind |-> "null", content |-> ""],
      [kind |-> "ok", content |-> "t1"],
      [kind |-> "ok", content |-> " "] }

Returned(out) == [raised |-> "-", kind |-> out.kind, content |-> out.content]

Raised(exc) == [raised |-> exc, kind |-> "-", content |-> ""]

Pow2(n) == IF n = 0 THEN 1 ELSE IF n = 1 THEN 2 ELSE IF n = 2 THEN 4 ELSE 8

\* The fixed instructions used when a guidance call fails
DefaultSrl == <<"DEFAULT_SRL">>
DefaultEthics == <<"DEFAULT_ETHICS">>
SrlSuffix == "SRL_SUFFIX"

\* messages[-1]['content'] if messages and messages[-1]['role'] == 'user' else ''
UserMessage(messages) ==
    IF Len(messages) > 0 /\ messages[Len(messages)].role = "user"
    THEN messages[Len(messages)].content ELSE ""

\* call_qwen_api(messages, **AGENT_CONFIG[...]): the workflows never pass
\* max_retries, so every call of a request runs with the default.
StartCall(r, stage, instr, msgs) ==
    [r EXCEPT !.pc = "http", !.stage = stage, !.attempt = 0,
              !.max_retries = DefaultMaxRetries, !.sleeps = <<>>, !.posts = <<>>,
              !.calls = Append(@, [stage |-> stage, instr |-> instr,
                                   messages |-> msgs, done |-> FALSE,
                                   result |-> NoResult])]

\* Mutant of Guidance: no try/except, the text is taken whatever the call gave
GuidanceNoDefault(res, default) == <<Strip(res.content)>>

\* Mutant of Guidance: the guidance obtained from the call is dropped
GuidanceIgnored(res, default) == default

\* response['choices'][0]['message']['content'].strip() inside try/except:
\* any exception (the call raised, no choices, null content) gives the default
Guidance(res, default) ==
    IF res.raised # "-" \/ res.kind # "ok" THEN default
    ELSE <<Strip(res.content)>>

\* [final_system_prompt] + messages[:-1] + [{'role': 'user', 'content': user_message}]
FinalMessages(template, messages) ==
    <<Msg("system", template)>>
    \o SubSeq(messages, 1, Len(messages) - 1)
    \o <<Msg("user", UserMessage(messages))>>

AgentMessages(template, messages) ==
    <<Msg("system", template), Msg("user", UserMessage(messages))>>

\* Mutant of Workflow: 'srl_and_ethics' is served by the ethics workflow
WorkflowNoCascade(llm_type) ==
    IF llm_type \in {"srl", "ai_ethics"} THEN llm_type
    ELSE IF llm_type = "srl_and_ethics" THEN "ai_ethics"
    ELSE "original"

\* route_llm_call: llm_handlers.get(llm_type, call_original_llm)
Workflow(llm_type) ==
    IF llm_type \in {"srl", "ai_ethics", "srl_and_ethics"} THEN llm_type
    ELSE "original"

\* Mutant of RouteLlmCall: every llm_type is served by call_original_llm
RouteSingleCall(r) == StartCall(r, "answer", <<>>, r.messages)

\* The first call_qwen_api of the handler route_llm_call picks
RouteLlmCall(r) ==
    LET wf == Workflow(r.llm_type) IN
    IF wf = "original" \/ UserMessage(r.messages) = ""
    THEN StartCall(r, "answer", <<>>, r.messages)
    ELSE IF wf = "srl"
    THEN StartCall(r, "srl_agent", <<>>, AgentMessages("srl_agent", r.messages))
    ELSE StartCall(r, "ethics_agent", <<>>, AgentMessages("ethics_agent", r.messages))

\* add_message_to_conversation is entered: its first command is the GET
StartAdd(r, ctx, role, content) ==
    [r EXCEPT !.pc = "am_get", !.ctx = ctx, !.role = role, !.content = content]

\* Mutant of AfterLlm: the empty-reply check is missing
AfterLlmNoEmptyCheck(r, res) ==
    IF res.raised # "-" THEN Done(r, 500, FALSE)
    ELSE IF res.kind = "nochoices" THEN Done(r, 502, FALSE)
    ELSE IF res.kind = "null" THEN Done(r, 500, FALSE)
    ELSE StartAdd([r EXCEPT !.reply = Strip(res.content)],
                  "chat_user", "user", r.message)

\* chat, lines 1089-1109: what the handler does with route_llm_call's result
AfterLlm(r, res) ==
    IF res.raised # "-" THEN Done(r, 500, FALSE)
    ELSE IF res.kind = "nochoices" THEN Done(r, 502, FALSE)
    ELSE IF res.kind = "null" THEN Done(r, 500, FALSE)
    ELSE IF Strip(res.content) = "" THEN Done(r, 502, FALSE)
    ELSE StartAdd([r EXCEPT !.reply = Strip(res.content)],
                  "chat_user", "user", r.message)

MarkDone(calls, res) ==
    [calls EXCEPT ![Len(calls)].done = TRUE, ![Len(calls)].result = res]

\* call_qwen_api has returned res (or raised) to the statement that called it
CallReturned(r0, res) ==
    LET r == [r0 EXCEPT !.calls = MarkDone(@, res), !.result = res]
        wf == Workflow(r.llm_type)
    IN
    CASE r.op = "call_qwen_api" ->
            Done(r, 0, res.raised = "-")
      [] r.op # "call_qwen_api" /\ r.stage = "srl_agent" ->
            LET g == Guidance(res, DefaultSrl) IN
            StartCall([r EXCEPT !.instr = g], "answer", g,
                      FinalMessages("srl_final", r.messages))
      [] r.op # "call_qwen_api" /\ r.stage = "ethics_agent" /\ wf # "srl_and_ethics" ->
            LET g == Guidance(res, DefaultEthics) IN
            StartCall([r EXCEPT !.instr = g], "answer", g,
                      FinalMessages("ethics_final", r.messages))
      [] r.op # "call_qwen_api" /\ r.stage = "ethics_agent" /\ wf = "srl_and_ethics" ->
            LET g == Guidance(res, DefaultEthics) IN
            StartCall([r EXCEPT !.ethics = g], "srl_adjust", g,
                      AgentMessages("srl_adjust", r.messages))
      [] r.op # "call_qwen_api" /\ r.stage = "srl_adjust" ->
            LET g == Guidance(res, Append(r.ethics, SrlSuffix)) IN
            StartCall([r EXCEPT !.instr = g], "answer", g,
                      FinalMessages("srl_ethics_final", r.messages))
      [] OTHER -> AfterLlm(r, res)

\* Mutant of QwenAttempt: `except RequestException` retries like `except Timeout`
QwenAttemptRetryAll(r, out) ==
    LET r1 == [r EXCEPT !.posts = Append(@, out.kind), !.nposts = @ + 1] IN
    IF out.kind \in {"timeout", "error"}
    THEN IF r.attempt < r.max_retries - 1
         THEN [r1 EXCEPT !.sleeps = Append(@, Pow2(r.attempt)),
                         !.attempt = @ + 1]
         ELSE CallReturned(r1, Raised(IF out.kind = "timeout" THEN "Timeout"
                                       ELSE "RequestException"))
    ELSE CallReturned(r1, Returned(out))

\* One iteration of `for attempt in range(max_retries)`: the POST and the
\* except clauses around it.
QwenAttempt(r, out) ==
    LET r1 == [r EXCEPT !.posts = Append(@, out.kind), !.nposts = @ + 1] IN
    IF out.kind = "timeout"
    THEN IF r.attempt < r.max_retries - 1
         THEN [r1 EXCEPT !.sleeps = Append(@, Pow2(r.attempt)),
                         !.attempt = @ + 1]
         ELSE CallReturned(r1, Raised("Timeout"))
    ELSE IF out.kind = "error"
    THEN CallReturned(r1, Raised("RequestException"))
    ELSE CallReturned(r1, Returned(out))

HttpAttempt(p, out) ==
    /\ proc[p].pc = "http"
    /\ proc[p].attempt < proc[p].max_retries
    /\ proc' = [proc EXCEPT ![p] = QwenAttempt(proc[p], out)]
    /\ UNCHANGED <<available, apiKey, now, ticks, store, faults, issued, nreq>>

\* range(max_retries) is empty: the loop body never runs and the function
\* ends in `raise last_error` with last_error = None, a TypeError.
QwenNoAttempt(p) ==
    /\ proc[p].pc = "http"
    /\ proc[p].attempt >= proc[p].max_retries
    /\ proc' = [proc EXCEPT ![p] = CallReturned(proc[p], Raised("TypeError"))]
    /\ UNCHANGED <<available, apiKey, now, ticks, store, faults, issued, nreq>>

\* A caller invokes call_qwen_api(messages, max_retries=n) directly.
QwenCall(p, n) ==
    /\ proc[p].pc \in {"idle", "done"}
    /\ nreq < MaxCalls
    /\ nreq' = nreq + 1
    /\ proc' = [proc EXCEPT ![p] =
           [StartCall([InitProc EXCEPT !.op = "call_qwen_api"], "answer", <<>>,
                      <<Msg("user", "q1")>>)
            EXCEPT !.max_retries = n]]
    /\ UNCHANGED <<available, apiKey, now, ticks, store, faults, issued>>

\* ------------------------------------------------------------------------
\* RedisDB methods (redis_db.py), one action per Redis command
\* ------------------------------------------------------------------------
Free(p) == proc[p].pc \in {"idle", "done"}

Step(p, r) == proc' = [proc EXCEPT ![p] = r]

\* A command is issued only when Redis is available; only then can it fail.
Cmd(ok) == /\ (~available => ok)
           /\ Fault(ok)

\* get_conversation: GET conversation:<id>; None when Redis is unavailable,
\* the command fails or the key does not exist
GetConversation(id, ok) ==
    IF available /\ ok /\ conv[id].exists THEN conv[id] ELSE NoConv

\* conv_data of create_conversation
NewConversation(student_id, t) ==
    [NoConv EXCEPT !.student_id = student_id, !.created_at = t]

\* create_conversation has returned `success` to its call site
AfterCreate(r0, success) ==
    LET r == [r0 EXCEPT !.writes = Append(@, success)] IN
    CASE r.ctx = "chat" -> [r EXCEPT !.pc = "gc_get"]
      [] r.ctx = "create_session" -> Done(r, 200, TRUE)
      [] OTHER -> Done(r, 0, success)

\* Mutant of CreateSet: create_conversation without its `if not self.available`
CreateSetUnguarded(p, ok) ==
    LET r == proc[p] IN
    /\ r.pc = "cc_set"
    /\ Fault(ok)
    /\ IF ok
       THEN /\ conv' = [conv EXCEPT ![r.session_id] =
                   RedisSet(NewConversation(r.student_id, now), ConvTtl, now)]
            /\ Step(p, [Sent(r) EXCEPT !.pc = "cc_sadd"])
       ELSE /\ Step(p, AfterCreate(Sent(r), FALSE))
            /\ UNCHANGED conv
    /\ UNCHANGED <<available, apiKey, now, ticks, sidx, students, stats,
                   issued, nreq>>

\* create_conversation: SET conversation:<id> ... EX 86400*30
CreateSet(p, ok) ==
    LET r == proc[p] IN
    /\ r.pc = "cc_set"
    /\ Cmd(ok)
    /\ IF ~available
       THEN /\ Step(p, AfterCreate(r, TRUE))
            /\ UNCHANGED conv
       ELSE IF ok
       THEN /\ conv' = [conv EXCEPT ![r.session_id] =
                   RedisSet(NewConversation(r.student_id, now), ConvTtl, now)]
            /\ Step(p, [Sent(r) EXCEPT !.pc = "cc_sadd"])
       ELSE /\ Step(p, AfterCreate(Sent(r), FALSE))
            /\ UNCHANGED conv
    /\ UNCHANGED <<available, apiKey, now, ticks, sidx, students, stats,
                   issued, nreq>>

\* create_conversation: SADD student_conversations:<student> <id>
CreateSadd(p, ok) ==
    LET r == proc[p] IN
    /\ r.pc = "cc_sadd"
    /\ Cmd(ok)
    /\ sidx' = IF ok THEN [sidx EXCEPT ![r.student_id] = RedisSadd(@, r.session_id)]
               ELSE sidx
    /\ Step(p, [Sent(r) EXCEPT !.pc = "cc_expire"])
    /\ UNCHANGED <<available, apiKey, now, ticks, conv, students, stats,
                   issued, nreq>>

\* create_conversation: EXPIRE student_conversations:<student> 86400*30
CreateExpire(p, ok) ==
    LET r == proc[p] IN
    /\ r.pc = "cc_expire"
    /\ Cmd(ok)
    /\ sidx' = IF ok THEN [sidx EXCEPT ![r.student_id] = RedisExpire(@, ConvTtl, now)]
               ELSE sidx
    /\ Step(p, AfterCreate(Sent(r), TRUE))
    /\ UNCHANGED <<available, apiKey, now, ticks, conv, students, stats,
                   issued, nreq>>

\* add_message_to_conversation has returned `success` to its call site
AfterAdd(r0, success) ==
    LET r == [r0 EXCEPT !.writes = Append(@, success)] IN
    CASE r.ctx = "chat_user" -> StartAdd(r, "chat_ai", "assistant", r.reply)
      [] r.ctx = "chat_ai" -> [r EXCEPT !.pc = "st_get"]
      [] OTHER -> Done(r, 0, success)

\* route_llm_call has returned: its locals and those of the functions below
\* it are gone
LeaveLlm(r) ==
    [r EXCEPT !.messages = <<>>, !.calls = <<>>, !.stage = "-",
              !.ethics = <<>>, !.instr = <<>>, !.max_retries = 0,
              !.attempt = 0, !.sleeps = <<>>, !.posts = <<>>, !.nposts = 0]

\* add_message_to_conversation: conv = self.get_conversation(conv_id)
AddGet(p, ok) ==
    LET r == LeaveLlm(proc[p])
        c == GetConversation(r.session_id, ok)
    IN
    /\ r.pc = "am_get"
    /\ Cmd(ok)
    /\ IF ~available THEN Step(p, AfterAdd(r, TRUE))
       ELSE IF ~c.exists THEN Step(p, AfterAdd(Sent(r), FALSE))
       ELSE Step(p, [Sent(r) EXCEPT !.pc = "am_set", !.snap = c])
    /\ UNCHANGED <<available, apiKey, now, ticks, store, issued, nreq>>

\* conv['messages'].append(message); conv['message_count'] = len(conv['messages'])
Appended(c, role, content) ==
    [c EXCEPT !.messages = Append(@, Msg(role, content)),
              !.message_count = Len(c.messages) + 1]

\* Mutant of AddWrite: the append is applied to the value stored now
AddWriteFresh(stored, snap, role, content, t) ==
    RedisSet(Appended(stored, role, content), ConvTtl, t)

\* Mutant of AddWrite: the SET carries no EX
AddWriteNoExpiry(stored, snap, role, content, t) ==
    [Appended(snap, role, content) EXCEPT !.exists = TRUE, !.exp = NoExpiry]

\* The value and expiry add_message_to_conversation stores: the conversation
\* it read earlier with the message appended, EX 86400*30
AddWrite(stored, snap, role, content, t) ==
    RedisSet(Appended(snap, role, content), ConvTtl, t)

\* add_message_to_conversation: SET conversation:<id> json.dumps(conv) EX 86400*30
AddSet(p, ok) ==
    LET r == proc[p] IN
    /\ r.pc = "am_set"
    /\ Cmd(ok)
    /\ conv' = IF ok
               THEN [conv EXCEPT ![r.session_id] =
                        AddWrite(@, r.snap, r.role, r.content, now)]
               ELSE conv
    /\ Step(p, AfterAdd(Sent(r), ok))
    /\ UNCHANGED <<available, apiKey, now, ticks, sidx, students, stats,
                   issued, nreq>>

\* add_to_student_stats: stats = self._hgetall(key), {} when it fails
StatsGet(p, ok) ==
    LET r == proc[p] IN
    /\ r.pc = "st_get"
    /\ Cmd(ok)
    /\ IF ~available THEN Step(p, Done(r, 200, TRUE))
       ELSE Step(p, [Sent(r) EXCEPT !.pc = "st_set",
                              !.hstats = IF ok THEN stats[r.student_id] ELSE NoStats])
    /\ UNCHANGED <<available, apiKey, now, ticks, store, issued, nreq>>

\* add_to_student_stats: HSET stats:<id> with the incremented totals
StatsSet(p, ok) ==
    LET r == proc[p]
        s == r.student_id
    IN
    /\ r.pc = "st_set"
    /\ Cmd(ok)
    /\ stats' = IF ok
                THEN [stats EXCEPT ![s] =
                        [exists |-> TRUE,
                         total_messages |-> r.hstats.total_messages + 2,
                         total_conversations |-> r.hstats.total_conversations + 1,
                         exp |-> stats[s].exp]]
                ELSE stats
    /\ Step(p, [Sent(r) EXCEPT !.pc = "st_expire"])
    /\ UNCHANGED <<available, apiKey, now, ticks, conv, sidx, students,
                   issued, nreq>>

\* add_to_student_stats: EXPIRE stats:<id> 86400*365, then chat returns 200
StatsExpire(p, ok) ==
    LET r == proc[p] IN
    /\ r.pc = "st_expire"
    /\ Cmd(ok)
    /\ stats' = IF ok THEN [stats EXCEPT ![r.student_id] = RedisExpire(@, StudentTtl, now)]
                ELSE stats
    /\ Step(p, Done(Sent(r), 200, TRUE))
    /\ UNCHANGED <<available, apiKey, now, ticks, conv, sidx, students,
                   issued, nreq>>

\* save_student: SET student:<id> json.dumps(student_data) EX 86400*365
StudentWrite(t) == RedisSet([NoStudent EXCEPT !.login_count = 1], StudentTtl, t)

SaveStudent(p, s, ok) ==
    /\ Free(p)
    /\ nreq < MaxCalls
    /\ nreq' = nreq + 1
    /\ Cmd(ok)
    /\ students' = IF available /\ ok THEN [students EXCEPT ![s] = StudentWrite(now)]
                   ELSE students
    /\ Step(p, Done([InitProc EXCEPT !.op = "save_student", !.student_id = s,
                                     !.cmds = IF available THEN 1 ELSE 0,
                                     !.writes = <<(~available) \/ ok>>],
                    0, (~available) \/ ok))
    /\ UNCHANGED <<available, apiKey, now, ticks, conv, sidx, stats, issued>>

\* ------------------------------------------------------------------------
\* get_student_conversations and its KEYS fallback (redis_db.py 338-402)
\* ------------------------------------------------------------------------

\* What the callers keep of a conversation read from Redis
ConvEntry(id, c) ==
    [id |-> id, student_id |-> c.student_id, created_at |-> c.created_at,
     message_count |-> c.message_count]

\* list.sort(key=created_at, reverse=True): stable, equal keys keep their order
RECURSIVE SortDesc(_)
SortDesc(seq) ==
    IF Len(seq) <= 1 THEN seq
    ELSE LET h == Head(seq)
             rest == SortDesc(Tail(seq))
             k == Cardinality({i \in 1..Len(rest) : rest[i].created_at > h.created_at})
         IN  SubSeq(rest, 1, k) \o <<h>> \o SubSeq(rest, k + 1, Len(rest))

\* conversations.sort(...); return conversations
GscReturn(r) == Done([r EXCEPT !.convs = SortDesc(@), !.cur = NoId], 0, TRUE)

\* The `for conv_id in conv_ids` loop has finished an iteration: next id, or
\* the fallback when no conversation was found, or the return
AfterIndexLoop(r) ==
    IF r.todo # {} THEN [r EXCEPT !.pc = "sc_get", !.cur = NoId]
    ELSE IF r.convs = <<>> THEN [r EXCEPT !.pc = "fb_keys", !.cur = NoId]
    ELSE GscReturn(r)

\* Mutant of AfterScanLoop: the rebuilt index gets no expiry
AfterScanLoopNoExpire(r) ==
    IF r.todo # {} THEN [r EXCEPT !.pc = "fb_get", !.cur = NoId]
    ELSE GscReturn(r)

\* The `for key in keys` loop of the fallback has finished an iteration
AfterScanLoop(r) ==
    IF r.todo # {} THEN [r EXCEPT !.pc = "fb_get", !.cur = NoId]
    ELSE IF r.convs # <<>> THEN [r EXCEPT !.pc = "fb_expire", !.cur = NoId]
    ELSE GscReturn(r)

\* get_student_conversations(student_id) as one of at most `limit` calls
CallStudentConversations(p, student, limit) ==
    /\ Free(p)
    /\ nreq < limit
    /\ nreq' = nreq + 1
    /\ Step(p, [InitProc EXCEPT !.op = "get_student_conversations",
                   !.pc = "sc_smembers", !.student_id = student,
                   !.started = now])
    /\ UNCHANGED <<available, apiKey, now, ticks, store, faults, issued>>

\* conv_ids = self._smembers(index_key)
GscMembers(p, ok) ==
    LET r == proc[p]
        ids == IF ok /\ sidx[r.student_id].exists
               THEN sidx[r.student_id].members ELSE {}
    IN
    /\ r.pc = "sc_smembers"
    /\ Cmd(ok)
    /\ IF ~available THEN Step(p, Done(r, 0, TRUE))
       ELSE Step(p, AfterIndexLoop([Sent(r) EXCEPT !.conv_ids = ids, !.todo = ids]))
    /\ UNCHANGED <<available, apiKey, now, ticks, store, issued, nreq>>

\* conv = self.get_conversation(conv_id) for the next id of the index
GscGet(p, id, ok) ==
    LET r == proc[p]
        c == GetConversation(id, ok)
    IN
    /\ r.pc = "sc_get"
    /\ id \in r.todo
    /\ Cmd(ok)
    /\ IF c.exists
       THEN Step(p, AfterIndexLoop([Sent(r) EXCEPT
                       !.convs = Append(@, ConvEntry(id, c)),
                       !.todo = @ \ {id}]))
       ELSE Step(p, [Sent(r) EXCEPT !.pc = "sc_srem", !.cur = id])
    /\ UNCHANGED <<available, apiKey, now, ticks, store, issued, nreq>>

\* self._srem(index_key, conv_id): the conversation was not returned by the GET
GscSrem(p, ok) ==
    LET r == proc[p] IN
    /\ r.pc = "sc_srem"
    /\ Cmd(ok)
    /\ sidx' = IF ok THEN [sidx EXCEPT ![r.student_id] = RedisSrem(@, r.cur)]
               ELSE sidx
    /\ Step(p, AfterIndexLoop([Sent(r) EXCEPT !.todo = @ \ {r.cur}]))
    /\ UNCHANGED <<available, apiKey, now, ticks, conv, students, stats,
                   issued, nreq>>

\* _get_student_conversations_fallback: keys = self._keys("conversation:*")
FallbackKeys(p, ok) ==
    LET r == proc[p]
        keys == IF ok THEN {id \in ConvIds : conv[id].exists} ELSE {}
    IN
    /\ r.pc = "fb_keys"
    /\ Cmd(ok)
    /\ Step(p, AfterScanLoop([Sent(r) EXCEPT !.todo = keys, !.fallback = TRUE]))
    /\ UNCHANGED <<available, apiKey, now, ticks, store, issued, nreq>>

\* data = self._get(key); the conversation counts when its student_id matches
FallbackGet(p, id, ok) ==
    LET r == proc[p]
        c == IF ok /\ conv[id].exists THEN conv[id] ELSE NoConv
    IN
    /\ r.pc = "fb_get"
    /\ id \in r.todo
    /\ Cmd(ok)
    /\ IF c.exists /\ c.student_id = r.student_id
       THEN Step(p, [Sent(r) EXCEPT !.convs = Append(@, ConvEntry(id, c)),
                                    !.pc = "fb_sadd", !.cur = id])
       ELSE Step(p, AfterScanLoop([Sent(r) EXCEPT !.todo = @ \ {id}]))
    /\ UNCHANGED <<available, apiKey, now, ticks, store, issued, nreq>>

\* self._sadd(index_key, conv['conversation_id'])
FallbackSadd(p, ok) ==
    LET r == proc[p] IN
    /\ r.pc = "fb_sadd"
    /\ Cmd(ok)
    /\ sidx' = IF ok THEN [sidx EXCEPT ![r.student_id] = RedisSadd(@, r.cur)]
               ELSE sidx
    /\ Step(p, AfterScanLoop([Sent(r) EXCEPT !.todo = @ \ {r.cur}]))
    /\ UNCHANGED <<available, apiKey, now, ticks, conv, students, stats,
                   issued, nreq>>

\* if conversations: self._expire(index_key, 86400*30)
FallbackExpire(p, ok) ==
    LET r == proc[p] IN
    /\ r.pc = "fb_expire"
    /\ Cmd(ok)
    /\ sidx' = IF ok THEN [sidx EXCEPT ![r.student_id] = RedisExpire(@, ConvTtl, now)]
               ELSE sidx
    /\ Step(p, GscReturn(Sent(r)))
    /\ UNCHANGED <<available, apiKey, now, ticks, conv, students, stats,
                   issued, nreq>>

\* ------------------------------------------------------------------------
\* delete_conversation (redis_db.py 404-424)
\* ------------------------------------------------------------------------
CallDelete(p, id, limit) ==
    /\ Free(p)
    /\ nreq < limit
    /\ nreq' = nreq + 1
    /\ Step(p, [InitProc EXCEPT !.op = "delete_conversation", !.pc = "dc_get",
                                !.session_id = id, !.started = now])
    /\ UNCHANGED <<available, apiKey, now, ticks, store, faults, issued>>

\* conv = self.get_conversation(conv_id)
DeleteGet(p, ok) ==
    LET r == proc[p]
        c == GetConversation(r.session_id, ok)
    IN
    /\ r.pc = "dc_get"
    /\ Cmd(ok)
    /\ IF ~available THEN Step(p, Done(r, 0, FALSE))
       ELSE IF c.exists THEN Step(p, [Sent(r) EXCEPT !.pc = "dc_srem", !.deleted = c])
       ELSE Step(p, [Sent(r) EXCEPT !.pc = "dc_del"])
    /\ UNCHANGED <<available, apiKey, now, ticks, store, issued, nreq>>

\* self._srem(index_key, conv_id)
DeleteSrem(p, ok) ==
    LET r == proc[p] IN
    /\ r.pc = "dc_srem"
    /\ Cmd(ok)
    /\ sidx' = IF ok
               THEN [sidx EXCEPT ![r.deleted.student_id] = RedisSrem(@, r.session_id)]
               ELSE sidx
    /\ Step(p, [Sent(r) EXCEPT !.pc = "dc_del"])
    /\ UNCHANGED <<available, apiKey, now, ticks, conv, students, stats,
                   issued, nreq>>

\* return self._delete(key)
DeleteDel(p, ok) ==
    LET r == proc[p] IN
    /\ r.pc = "dc_del"
    /\ Cmd(ok)
    /\ conv' = IF ok THEN [conv EXCEPT ![r.session_id] = NoConv] ELSE conv
    /\ Step(p, [Done(Sent(r), 0, ok) EXCEPT !.writes = <<ok>>])
    /\ UNCHANGED <<available, apiKey, now, ticks, sidx, students, stats,
                   issued, nreq>>

\* ------------------------------------------------------------------------
\* POST /chat (index.py 1023-1127)
\* ------------------------------------------------------------------------
RawMessages == {"", "  ", " q1 ", "q2", "LONG"}
LlmTypes == {"original", "srl", "ai_ethics", "srl_and_ethics", "other"}
ChatStudents == {"S1"}

\* Lines 1027-1050: the status of a request refused before any work, 0 if none
ChatRefusal(is_json, body_ok, raw, key) ==
    IF ~is_json THEN 400
    ELSE IF ~body_ok THEN 500
    ELSE IF Strip(raw) = "" \/ TextLen(Strip(raw)) > MaxMessageLen THEN 400
    ELSE IF ~key THEN 500
    ELSE 0

\* The request as far as the handler has read it when it answers
ChatRequest(is_json, body_ok, raw, sid, student, llm) ==
    IF ~is_json THEN [InitProc EXCEPT !.op = "chat", !.is_json = FALSE]
    ELSE IF ~body_ok THEN [InitProc EXCEPT !.op = "chat", !.body_ok = FALSE]
    ELSE [InitProc EXCEPT !.op = "chat", !.message = Strip(raw),
                          !.client_sid = sid, !.session_id = sid,
                          !.student_id = student, !.llm_type = llm]

\* body_ok = FALSE: request.get_json() or one of the data.get(...).strip()
\* lines raises (a body that is not a JSON object, a message that is no string)
ChatStart(p, is_json, body_ok, raw, sid, student, llm) ==
    LET r == ChatRequest(is_json, body_ok, raw, sid, student, llm)
        refusal == ChatRefusal(is_json, body_ok, raw, apiKey)
    IN
    /\ Free(p)
    /\ nreq < MaxRequests
    /\ nreq' = nreq + 1
    /\ IF refusal # 0
       THEN /\ Step(p, Done(r, refusal, FALSE))
            /\ UNCHANGED issued
       ELSE IF sid = NoId
       THEN /\ CanIssue(issued)
            /\ Step(p, [r EXCEPT !.session_id = NewId(issued),
                                 !.pc = "cc_set", !.ctx = "chat"])
            /\ issued' = issued \cup {NewId(issued)}
       ELSE /\ Step(p, [r EXCEPT !.pc = "gc_get", !.ctx = "chat"])
            /\ issued' = issued \cup {sid}
    /\ UNCHANGED <<available, apiKey, now, ticks, store, faults>>

\* Lines 1070-1082: the stored history (at most 20 messages), and the user
\* message appended unless the history already ends with a user message
BuildMessages(c, user_message) ==
    LET history == IF c.exists THEN LastN(c.messages, HistoryLimit) ELSE <<>> IN
    IF history = <<>> \/ history[Len(history)].role # "user"
    THEN Append(history, Msg("user", user_message))
    ELSE history

\* conversation = redis_db.get_conversation(session_id), then route_llm_call
ChatGet(p, ok) ==
    LET r == proc[p]
        c == GetConversation(r.session_id, ok)
    IN
    /\ r.pc = "gc_get"
    /\ Cmd(ok)
    /\ Step(p, RouteLlmCall([r EXCEPT !.messages = BuildMessages(c, r.message),
                                      !.cmds = IF available THEN @ + 1 ELSE @]))
    /\ UNCHANGED <<available, apiKey, now, ticks, store, issued, nreq>>

\* ------------------------------------------------------------------------
\* POST /api/sessions and DELETE /api/sessions/<id> (index.py 1305-1387)
\* ------------------------------------------------------------------------
CreateSession(p, student) ==
    /\ Free(p)
    /\ nreq < MaxRequests
    /\ nreq' = nreq + 1
    /\ IF student = NoId
       THEN /\ Step(p, Done([InitProc EXCEPT !.op = "create_session"], 400, FALSE))
            /\ UNCHANGED issued
       ELSE /\ CanIssue(issued)
            /\ Step(p, [InitProc EXCEPT !.op = "create_session",
                           !.ctx = "create_session", !.pc = "cc_set",
                           !.student_id = student,
                           !.session_id = NewId(issued)])
            /\ issued' = issued \cup {NewId(issued)}
    /\ UNCHANGED <<available, apiKey, now, ticks, store, faults>>

DeleteSession(p, id) ==
    /\ Free(p)
    /\ nreq < MaxRequests
    /\ nreq' = nreq + 1
    /\ LET r == [InitProc EXCEPT !.op = "delete_session", !.session_id = id] IN
       IF ~available THEN Step(p, Done(r, 503, FALSE))
       ELSE Step(p, [r EXCEPT !.pc = "ds_get"])
    /\ UNCHANGED <<available, apiKey, now, ticks, store, faults, issued>>

\* session = redis_db.get_conversation(session_id)
DeleteSessionGet(p, ok) ==
    LET r == proc[p]
        c == GetConversation(r.session_id, ok)
    IN
    /\ r.pc = "ds_get"
    /\ Cmd(ok)
    /\ IF ~c.exists THEN Step(p, Done(Sent(r), 404, FALSE))
       ELSE Step(p, [Sent(r) EXCEPT !.pc = "ds_del", !.deleted = c])
    /\ UNCHANGED <<available, apiKey, now, ticks, store, issued, nreq>>

\* success = redis_db._delete(key): DEL conversation:<id>
DeleteSessionDel(p, ok) ==
    LET r == proc[p] IN
    /\ r.pc = "ds_del"
    /\ Cmd(ok)
    /\ conv' = IF ok THEN [conv EXCEPT ![r.session_id] = NoConv] ELSE conv
    /\ Step(p, [Done(Sent(r), IF ok THEN 200 ELSE 500, ok) EXCEPT !.writes = <<ok>>])
    /\ UNCHANGED <<available, apiKey, now, ticks, sidx, students, stats,
                   issued, nreq>>

\* ------------------------------------------------------------------------
\* GET /api/sessions?student_id=... (index.py 1234-1276) over
\* get_all_conversations (redis_db.py 458-479)
\* ------------------------------------------------------------------------

\* Mutant of OfStudent: the list is not filtered
AllStudents(seq, student) == seq

\* The conversations of the list whose student_id is the requested one
RECURSIVE OfStudent(_, _)
OfStudent(seq, student) ==
    IF seq = <<>> THEN <<>>
    ELSE IF Head(seq).student_id = student
    THEN <<Head(seq)>> \o OfStudent(Tail(seq), student)
    ELSE OfStudent(Tail(seq), student)

\* student_sessions.sort(key=created_at, reverse=True); return jsonify(...)
SessionsReturn(r) ==
    Done([r EXCEPT !.convs = SortDesc(OfStudent(@, r.student_id)), !.cur = NoId],
         200, TRUE)

\* The `for key in keys` loop of get_all_conversations
AfterAllLoop(r) ==
    IF r.todo # {} THEN [r EXCEPT !.pc = "ga_get"] ELSE SessionsReturn(r)

GetSessions(p, student, limit) ==
    /\ Free(p)
    /\ nreq < limit
    /\ nreq' = nreq + 1
    /\ LET r == [InitProc EXCEPT !.op = "get_sessions", !.started = now] IN
       IF student = NoId THEN Step(p, Done(r, 400, FALSE))
       ELSE Step(p, [r EXCEPT !.pc = "ga_keys", !.student_id = student])
    /\ UNCHANGED <<available, apiKey, now, ticks, store, faults, issued>>

\* get_all_conversations: keys = self._keys("conversation:*")
AllKeys(p, ok) ==
    LET r == proc[p]
        keys == IF ok THEN {id \in ConvIds : conv[id].exists} ELSE {}
    IN
    /\ r.pc = "ga_keys"
    /\ Cmd(ok)
    /\ IF ~available THEN Step(p, SessionsReturn(r))
       ELSE Step(p, AfterAllLoop([Sent(r) EXCEPT !.todo = keys]))
    /\ UNCHANGED <<available, apiKey, now, ticks, store, issued, nreq>>

\* get_all_conversations: data = self._get(key); conversations.append(...)
AllGet(p, id, ok) ==
    LET r == proc[p]
        c == IF ok /\ conv[id].exists THEN conv[id] ELSE NoConv
    IN
    /\ r.pc = "ga_get"
    /\ id \in r.todo
    /\ Cmd(ok)
    /\ Step(p, AfterAllLoop([Sent(r) EXCEPT
                   !.convs = IF c.exists THEN Append(@, ConvEntry(id, c)) ELSE @,
                   !.todo = @ \ {id}]))
    /\ UNCHANGED <<available, apiKey, now, ticks, store, issued, nreq>>

\* ------------------------------------------------------------------------
\* POST /api/login (index.py 76-130) over get_student, update_student_login
\* and save_student (redis_db.py 155-195)
\* ------------------------------------------------------------------------

\* Mutant of Upper: the id is not upper-cased
NoUpper(s) == s

\* str.upper() on the ids the model uses
Upper(s) ==
    CASE s = "s1" -> "S1"
      [] s = "s3" -> "S3"
      [] OTHER -> s

\* STUDENTS_CONFIG['groups'], in the order of the file
StudentsConfig ==
    << [group_id |-> "group_a", llm_type |-> "original", students |-> {"S1"}],
       [group_id |-> "group_b", llm_type |-> "srl", students |-> {"S2"}] >>

NoGroup == [group_id |-> "-", llm_type |-> "-", students |-> {}]

\* get_student_group: the first group that lists the id, None when none does
GetStudentGroup(student_id) ==
    LET hits == {i \in 1..Len(StudentsConfig) : student_id \in StudentsConfig[i].students}
    IN  IF hits = {} THEN NoGroup
        ELSE StudentsConfig[CHOOSE i \in hits : \A j \in hits : i <= j]

\* The student_id values a client sends
LoginIds == {"", "  ", " s1 ", "S2", "s3"}

\* body_ok = FALSE: request.get_json() raises or returns something without
\* a string student_id
Login(p, body_ok, raw, limit) ==
    LET student_id == Upper(Strip(raw))
        group_info == GetStudentGroup(student_id)
        r == [InitProc EXCEPT !.op = "login", !.body_ok = body_ok,
                              !.raw_id = raw, !.started = now]
    IN
    /\ Free(p)
    /\ nreq < limit
    /\ nreq' = nreq + 1
    /\ IF ~body_ok THEN Step(p, Done(r, 500, FALSE))
       ELSE IF student_id = "" THEN Step(p, Done(r, 400, FALSE))
       ELSE IF group_info = NoGroup
       THEN Step(p, Done([r EXCEPT !.student_id = student_id], 404, FALSE))
       ELSE Step(p, [r EXCEPT !.pc = "lg_get", !.student_id = student_id,
                              !.group = group_info.group_id,
                              !.llm_type = group_info.llm_type])
    /\ UNCHANGED <<available, apiKey, now, ticks, store, faults, issued>>

\* existing_student = redis_db.get_student(student_id)
LoginGet(p, ok) ==
    LET r == proc[p]
        existing == available /\ ok /\ students[r.student_id].exists
    IN
    /\ r.pc = "lg_get"
    /\ Cmd(ok)
    /\ IF ~available THEN Step(p, Done(r, 200, TRUE))
       ELSE IF existing THEN Step(p, [Sent(r) EXCEPT !.pc = "ul_get"])
       ELSE Step(p, [Sent(r) EXCEPT !.pc = "ss_set", !.login_count = 1])
    /\ UNCHANGED <<available, apiKey, now, ticks, store, issued, nreq>>

\* update_student_login: student = self.get_student(student_id)
LoginUpdateGet(p, ok) ==
    LET r == proc[p]
        student == IF ok THEN students[r.student_id] ELSE NoStudent
    IN
    /\ r.pc = "ul_get"
    /\ Cmd(ok)
    /\ IF student.exists
       THEN Step(p, [Sent(r) EXCEPT !.pc = "ss_set",
                                    !.login_count = student.login_count + 1])
       ELSE Step(p, Done(Sent(r), 200, TRUE))
    /\ UNCHANGED <<available, apiKey, now, ticks, store, issued, nreq>>

\* save_student: SET student:<id> json.dumps(student) EX 86400*365
LoginSet(p, ok) ==
    LET r == proc[p] IN
    /\ r.pc = "ss_set"
    /\ Cmd(ok)
    /\ students' = IF ok
                   THEN [students EXCEPT ![r.student_id] =
                           RedisSet([NoStudent EXCEPT !.login_count = r.login_count],
                                    StudentTtl, now)]
                   ELSE students
    /\ Step(p, [Done(Sent(r), 200, TRUE) EXCEPT !.writes = <<ok>>])
    /\ UNCHANGED <<available, apiKey, now, ticks, conv, sidx, stats,
                   issued, nreq>>

\* ------------------------------------------------------------------------
\* Callers of the RedisDB methods themselves
\* ------------------------------------------------------------------------
\* create_conversation(conv_id, student_id, ...) as one of at most `limit` calls
CallCreate(p, student, limit) ==
    /\ Free(p)
    /\ nreq < limit
    /\ nreq' = nreq + 1
    /\ CanIssue(issued)
    /\ Step(p, [InitProc EXCEPT !.op = "create_conversation", !.ctx = "api",
                   !.pc = "cc_set", !.student_id = student,
                   !.session_id = NewId(issued)])
    /\ issued' = issued \cup {NewId(issued)}
    /\ UNCHANGED <<available, apiKey, now, ticks, store, faults>>

ApiCreate(p, student) == CallCreate(p, student, MaxCalls)

\* add_message_to_conversation(conv_id, role, content, n) as one of at most
\* `limit` calls
CallAdd(p, id, role, content, limit) ==
    /\ Free(p)
    /\ nreq < limit
    /\ nreq' = nreq + 1
    /\ Step(p, StartAdd([InitProc EXCEPT !.op = "add_message_to_conversation",
                                         !.session_id = id],
                        "api", role, content))
    /\ UNCHANGED <<available, apiKey, now, ticks, store, faults, issued>>

ApiAdd(p, id, role, content) == CallAdd(p, id, role, content, MaxCalls)

\* ------------------------------------------------------------------------
\* Time: the Redis server's clock advances and expired keys are gone
\* ------------------------------------------------------------------------
Purge(keys, none, t) ==
    [k \in DOMAIN keys |-> IF Expired(keys[k], t) THEN none ELSE keys[k]]

Tick ==
    /\ ticks < MaxTicks
    /\ ticks' = ticks + 1
    /\ now' = now + TickDays * DaySeconds
    /\ conv' = Purge(conv, NoConv, now')
    /\ sidx' = Purge(sidx, NoSet, now')
    /\ students' = Purge(students, NoStudent, now')
    /\ stats' = Purge(stats, NoStats, now')
    /\ UNCHANGED <<available, apiKey, faults, issued, nreq, proc>>

\* Days pass between two calls: a call takes seconds, the clock moves by days
IdleTick == (\A p \in Procs : Free(p)) /\ Tick

\* ------------------------------------------------------------------------
\* Specifications
\* ------------------------------------------------------------------------
Init ==
    /\ available \in BOOLEAN
    /\ apiKey \in BOOLEAN
    /\ now = 0
    /\ ticks = 0
    /\ conv = [id \in ConvIds |-> NoConv]
    /\ sidx = [s \in Students |-> NoSet]
    /\ students = [s \in Students |-> NoStudent]
    /\ stats = [s \in Students |-> NoStats]
    /\ faults = 0
    /\ issued = {}
    /\ nreq = 0
    /\ proc = [p \in Procs |-> InitProc]

\* One worker serving POST /chat requests one after the other; every Redis
\* command reaches the server.
Next ==
    \/ \E body_ok \in BOOLEAN : ChatStart(1, ~body_ok, body_ok, "", NoId, "S1", "original")
    \/ \E raw \in RawMessages, sid \in ConvIds \cup {NoId},
          student \in ChatStudents, llm \in LlmTypes :
            ChatStart(1, TRUE, TRUE, raw, sid, student, llm)
    \/ CreateSet(1, TRUE)
    \/ CreateSadd(1, TRUE)
    \/ CreateExpire(1, TRUE)
    \/ ChatGet(1, TRUE)
    \/ \E out \in HttpOutcomes : HttpAttempt(1, out)
    \/ AddGet(1, TRUE)
    \/ AddSet(1, TRUE)
    \/ StatsGet(1, TRUE)
    \/ StatsSet(1, TRUE)
    \/ StatsExpire(1, TRUE)

Spec == Init /\ [][Next]_vars

\* call_qwen_api on its own, for every max_retries a caller may pass.
NextQwen ==
    \/ \E n \in 0..MaxRetriesArg : QwenCall(1, n)
    \/ \E out \in HttpOutcomes : HttpAttempt(1, out)
    \/ QwenNoAttempt(1)

SpecQwen == Init /\ [][NextQwen]_vars

\* The persistence layer under passing time: one caller, failing commands.
NextStore ==
    \/ \E s \in Students : ApiCreate(1, s)
    \/ \E id \in ConvIds, m \in {Msg("user", "q1"), Msg("assistant", "t1")} :
            ApiAdd(1, id, m.role, m.content)
    \/ \E s \in Students \cup {NoId} : CreateSession(1, s)
    \/ \E id \in ConvIds : DeleteSession(1, id)
    \/ \E s \in Students, ok \in CmdOutcomes : SaveStudent(1, s, ok)
    \/ \E ok \in CmdOutcomes : CreateSet(1, ok)
    \/ \E ok \in CmdOutcomes : CreateSadd(1, ok)
    \/ \E ok \in CmdOutcomes : CreateExpire(1, ok)
    \/ \E ok \in CmdOutcomes : AddGet(1, ok)
    \/ \E ok \in CmdOutcomes : AddSet(1, ok)
    \/ \E ok \in CmdOutcomes : DeleteSessionGet(1, ok)
    \/ \E ok \in CmdOutcomes : DeleteSessionDel(1, ok)
    \/ Tick

SpecStore == Init /\ [][NextStore]_vars

\* Two handler threads calling the persistence layer at the same time.
NextConc ==
    \/ \E p \in Procs, s \in Students : ApiCreate(p, s)
    \/ \E p \in Procs, id \in ConvIds,
          m \in {Msg("user", "q1"), Msg("assistant", "t1")} :
            ApiAdd(p, id, m.role, m.content)
    \/ \E p \in Procs : CreateSet(p, TRUE)
    \/ \E p \in Procs : CreateSadd(p, TRUE)
    \/ \E p \in Procs : CreateExpire(p, TRUE)
    \/ \E p \in Procs : AddGet(p, TRUE)
    \/ \E p \in Procs : AddSet(p, TRUE)

SpecConc == Init /\ [][NextConc]_vars

\* The index of conversations per student under passing time: one caller of
\* the RedisDB methods and the session routes, every command reaching Redis.
NextIndex ==
    \/ \E s \in Students : CallCreate(1, s, MaxIndexCalls)
    \/ \E id \in ConvIds : CallAdd(1, id, "user", "q1", MaxIndexCalls)
    \/ \E s \in Students : CallStudentConversations(1, s, MaxIndexCalls)
    \/ \E id \in ConvIds : CallDelete(1, id, MaxIndexCalls)
    \/ \E id \in ConvIds : DeleteSession(1, id)
    \/ \E s \in Students \cup {NoId} : GetSessions(1, s, MaxIndexCalls)
    \/ CreateSet(1, TRUE)
    \/ CreateSadd(1, TRUE)
    \/ CreateExpire(1, TRUE)
    \/ AddGet(1, TRUE)
    \/ AddSet(1, TRUE)
    \/ GscMembers(1, TRUE)
    \/ \E id \in ConvIds : GscGet(1, id, TRUE)
    \/ GscSrem(1, TRUE)
    \/ FallbackKeys(1, TRUE)
    \/ \E id \in ConvIds : FallbackGet(1, id, TRUE)
    \/ FallbackSadd(1, TRUE)
    \/ FallbackExpire(1, TRUE)
    \/ DeleteGet(1, TRUE)
    \/ DeleteSrem(1, TRUE)
    \/ DeleteDel(1, TRUE)
    \/ DeleteSessionGet(1, TRUE)
    \/ DeleteSessionDel(1, TRUE)
    \/ AllKeys(1, TRUE)
    \/ \E id \in ConvIds : AllGet(1, id, TRUE)
    \/ IdleTick

SpecIndex == Init /\ [][NextIndex]_vars

\* POST /api/login on one worker, with Redis commands that may fail.
NextLogin ==
    \/ \E raw \in LoginIds : Login(1, TRUE, raw, MaxCalls)
    \/ Login(1, FALSE, "", MaxCalls)
    \/ \E ok \in CmdOutcomes : LoginGet(1, ok)
    \/ \E ok \in CmdOutcomes : LoginUpdateGet(1, ok)
    \/ \E ok \in CmdOutcomes : LoginSet(1, ok)

SpecLogin == Init /\ [][NextLogin]_vars

\* get_student_conversations cleaning and rebuilding the index while Redis
\* commands may fail: one caller, days passing between calls.
NextCleanup ==
    \/ \E s \in Students : CallCreate(1, s, MaxCalls)
    \/ \E s \in Students : CallStudentConversations(1, s, MaxCalls)
    \/ \E ok \in CmdOutcomes : CreateSet(1, ok)
    \/ \E ok \in CmdOutcomes : CreateSadd(1, ok)
    \/ \E ok \in CmdOutcomes : CreateExpire(1, ok)
    \/ \E ok \in CmdOutcomes : GscMembers(1, ok)
    \/ \E id \in ConvIds, ok \in CmdOutcomes : GscGet(1, id, ok)
    \/ \E ok \in CmdOutcomes : GscSrem(1, ok)
    \/ \E ok \in CmdOutcomes : FallbackKeys(1, ok)
    \/ \E id \in ConvIds, ok \in CmdOutcomes : FallbackGet(1, id, ok)
    \/ \E ok \in CmdOutcomes : FallbackSadd(1, ok)
    \/ \E ok \in CmdOutcomes : FallbackExpire(1, ok)
    \/ IdleTick

SpecCleanup == Init /\ [][NextCleanup]_vars

\* Two workers serving POST /chat, one after the other or at the same time,
\* for clients that continue a session a response has told them about; Redis
\* commands may fail.
SessionMessages == {" q1 ", "q2"}

\* The session ids the responses so far have returned to the clients
KnownSessions ==
    {proc[q].session_id : q \in {x \in Procs : /\ proc[x].op = "chat"
                                               /\ proc[x].pc = "done"
                                               /\ proc[x].success}}

SessionOutcomes == {out \in HttpOutcomes : out.kind = "error" \/ out.content = "t1"}

NextSession ==
    \/ \E p \in Procs, raw \in SessionMessages, sid \in KnownSessions \cup {NoId} :
            ChatStart(p, TRUE, TRUE, raw, sid, "S1", "original")
    \/ \E p \in Procs, ok \in CmdOutcomes : CreateSet(p, ok)
    \/ \E p \in Procs, ok \in CmdOutcomes : CreateSadd(p, ok)
    \/ \E p \in Procs, ok \in CmdOutcomes : CreateExpire(p, ok)
    \/ \E p \in Procs, ok \in CmdOutcomes : ChatGet(p, ok)
    \/ \E p \in Procs, out \in SessionOutcomes : HttpAttempt(p, out)
    \/ \E p \in Procs, ok \in CmdOutcomes : AddGet(p, ok)
    \/ \E p \in Procs, ok \in CmdOutcomes : AddSet(p, ok)
    \/ \E p \in Procs, ok \in CmdOutcomes : StatsGet(p, ok)
    \/ \E p \in Procs, ok \in CmdOutcomes : StatsSet(p, ok)
    \/ \E p \in Procs, ok \in CmdOutcomes : StatsExpire(p, ok)

SpecSession == Init /\ [][NextSession]_vars

\* One worker serving POST /chat, POST /api/login, GET /api/sessions and the
\* conversation methods of RedisDB, with Redis available or not; every command
\* that is issued reaches the server.
NextService ==
    \/ \E sid \in ConvIds \cup {NoId} :
            ChatStart(1, TRUE, TRUE, " q1 ", sid, "S1", "original")
    \/ CreateSet(1, TRUE)
    \/ CreateSadd(1, TRUE)
    \/ CreateExpire(1, TRUE)
    \/ ChatGet(1, TRUE)
    \/ \E out \in SessionOutcomes : HttpAttempt(1, out)
    \/ AddGet(1, TRUE)
    \/ AddSet(1, TRUE)
    \/ StatsGet(1, TRUE)
    \/ StatsSet(1, TRUE)
    \/ StatsExpire(1, TRUE)
    \/ \E raw \in LoginIds : Login(1, TRUE, raw, MaxIndexCalls)
    \/ LoginGet(1, TRUE)
    \/ LoginUpdateGet(1, TRUE)
    \/ LoginSet(1, TRUE)
    \/ CallCreate(1, "S1", MaxIndexCalls)
    \/ \E id \in ConvIds : CallAdd(1, id, "user", "q1", MaxIndexCalls)
    \/ CallStudentConversations(1, "S1", MaxIndexCalls)
    \/ GscMembers(1, TRUE)
    \/ \E id \in ConvIds : GscGet(1, id, TRUE)
    \/ GscSrem(1, TRUE)
    \/ FallbackKeys(1, TRUE)
    \/ \E id \in ConvIds : FallbackGet(1, id, TRUE)
    \/ FallbackSadd(1, TRUE)
    \/ FallbackExpire(1, TRUE)
    \/ \E id \in ConvIds : CallDelete(1, id, MaxIndexCalls)
    \/ DeleteGet(1, TRUE)
    \/ DeleteSrem(1, TRUE)
    \/ DeleteDel(1, TRUE)
    \/ \E student \in {NoId, "S1"} : GetSessions(1, student, MaxIndexCalls)
    \/ AllKeys(1, TRUE)
    \/ \E id \in ConvIds : AllGet(1, id, TRUE)
    \/ IdleTick

SpecService == Init /\ [][NextService]_vars

\* ------------------------------------------------------------------------
\* Properties
\* ------------------------------------------------------------------------
Chats == {p \in Procs : proc[p].op = "chat"}

QwenCalls == {p \in Procs : proc[p].op = "call_qwen_api"}

\* route_llm_call has been entered and no call_qwen_api invocation is running
LlmFinished(r) ==
    /\ r.op = "chat"
    /\ Len(r.calls) > 0
    /\ r.calls[Len(r.calls)].done

Answered(r) == r.op = "chat" /\ r.pc = "done" /\ r.success

\* C1: whenever POST /chat has answered success=true with session_id S (Redis
\* available), the transcript stored under conversation:S ends with the
\* request's user message followed by the returned reply, also when the
\* client supplied the session_id.
C1_TranscriptEndsWithExchange ==
    \A p \in Chats :
        LET r == proc[p]
            c == conv[r.session_id]
            n == Len(c.messages)
        IN  (Answered(r) /\ available) =>
                /\ c.exists
                /\ n >= 2
                /\ c.messages[n - 1] = Msg("user", r.message)
                /\ c.messages[n] = Msg("assistant", r.reply)

\* The guidance stage and final prompt of the two-step workflows
AgentStage(llm_type) == IF llm_type = "srl" THEN "srl_agent" ELSE "ethics_agent"
FinalPrompt(llm_type) == IF llm_type = "srl" THEN "srl_final" ELSE "ethics_final"
DefaultFor(llm_type) == IF llm_type = "srl" THEN <<"DEFAULT_SRL">> ELSE <<"DEFAULT_ETHICS">>

\* C2: for llm_type 'srl' or 'ai_ethics' one /chat request invokes
\* call_qwen_api exactly twice: first the guidance call (guidance system
\* prompt plus the student's question), and only when that call has returned
\* or failed the final-answer call, whose system prompt embeds the guidance
\* text of the first call, or the fixed default text when the first failed.
C2_TwoStepWorkflow ==
    \A p \in Chats :
        LET r == proc[p]
            n == Len(r.calls)
        IN  r.llm_type \in {"srl", "ai_ethics"} =>
                /\ n <= 2
                /\ LlmFinished(r) => n = 2
                /\ n >= 1 =>
                     /\ r.calls[1].stage = AgentStage(r.llm_type)
                     /\ r.calls[1].messages =
                            <<Msg("system", AgentStage(r.llm_type)),
                              Msg("user", r.messages[Len(r.messages)].content)>>
                /\ n = 2 =>
                     /\ r.calls[1].done
                     /\ r.calls[2].stage = "answer"
                     /\ r.calls[2].messages[1] = Msg("system", FinalPrompt(r.llm_type))
                     /\ r.calls[2].instr =
                            IF r.calls[1].result.raised = "-"
                               /\ r.calls[1].result.kind = "ok"
                            THEN <<Strip(r.calls[1].result.content)>>
                            ELSE DefaultFor(r.llm_type)

\* C2 witness: an 'srl' request whose guidance call raised and whose final
\* call was made with the default text, and has returned.
C2_Witness ==
    \E p \in Chats :
        /\ proc[p].llm_type = "srl"
        /\ LlmFinished(proc[p])
        /\ Len(proc[p].calls) = 2
        /\ proc[p].calls[1].result.raised = "Timeout"
        /\ proc[p].calls[2].instr = <<"DEFAULT_SRL">>
        /\ proc[p].calls[2].result.kind = "ok"

\* C3: call_qwen_api makes at most max_retries HTTP attempts, re-attempts
\* only after a Timeout, returns the first response that arrives, raises
\* another RequestException at once, and re-raises the Timeout when the last
\* permitted attempt has timed out.
C3_RetryOnlyOnTimeout ==
    \A p \in QwenCalls :
        LET r == proc[p]
            n == Len(r.posts)
        IN  /\ n <= r.max_retries
            /\ \A i \in 1..(n - 1) : r.posts[i] = "timeout"
            /\ r.pc = "http" => \A i \in 1..n : r.posts[i] = "timeout"
            /\ (r.pc = "done" /\ n > 0) =>
                 /\ r.posts[n] \notin {"timeout", "error"} =>
                        r.result = [raised |-> "-", kind |-> r.posts[n],
                                    content |-> r.result.content]
                 /\ r.posts[n] = "error" => r.result.raised = "RequestException"
                 /\ r.posts[n] = "timeout" =>
                        r.result.raised = "Timeout" /\ n = r.max_retries

\* C3 witness: the default call whose first attempt timed out and whose
\* second attempt answered.
C3_Witness ==
    \E p \in QwenCalls :
        /\ proc[p].pc = "done"
        /\ proc[p].max_retries = DefaultMaxRetries
        /\ proc[p].posts = <<"timeout", "ok">>
        /\ proc[p].result.raised = "-"

\* C4: max_retries is the number of retries: when every attempt times out,
\* call_qwen_api has sent max_retries + 1 requests when it raises.
C4_RetriesAfterFirstAttempt ==
    \A p \in QwenCalls :
        LET r == proc[p] IN
        (r.pc = "done" /\ r.result.raised = "Timeout") =>
            Len(r.posts) = r.max_retries + 1

\* C5: with the default arguments call_qwen_api sleeps 1 second and then
\* 2 seconds between timed-out attempts before it gives up.
C5_DefaultBackoff ==
    \A p \in QwenCalls :
        LET r == proc[p] IN
        (r.pc = "done" /\ r.max_retries = DefaultMaxRetries
            /\ r.result.raised = "Timeout") =>
            r.sleeps = <<1, 2>>

\* C6 as stated: a chat request sends a single HTTP request to the LLM API,
\* whichever llm_type branch is taken.
C6_SingleHttpRequest ==
    \A p \in Chats : LlmFinished(proc[p]) => proc[p].nposts = 1

ExpectedCalls(llm_type) ==
    IF llm_type \in {"srl", "ai_ethics"} THEN 2
    ELSE IF llm_type = "srl_and_ethics" THEN 3
    ELSE 1

\* C6 amended: a chat request that reaches the LLM invokes call_qwen_api once
\* for 'original' or an unknown llm_type, twice for 'srl' and 'ai_ethics',
\* three times for 'srl_and_ethics', and every invocation sends one or two
\* HTTP requests.
C6_HttpRequestsPerChat ==
    \A p \in Chats :
        LET r == proc[p]
            n == Len(r.calls)
        IN  /\ n <= ExpectedCalls(r.llm_type)
            /\ r.nposts <= 2 * n
            /\ LlmFinished(r) =>
                 /\ n = ExpectedCalls(r.llm_type)
                 /\ r.nposts >= n

\* C6 witness: an 'srl_and_ethics' request whose three invocations all
\* needed two attempts.
C6_Witness ==
    \E p \in Chats :
        /\ LlmFinished(proc[p])
        /\ proc[p].llm_type = "srl_and_ethics"
        /\ Len(proc[p].calls) = 3
        /\ proc[p].nposts = 6

\* The status the mapping of C7 gives a finished chat request
C7_Status(r) ==
    IF ~r.is_json THEN 400
    ELSE IF ~r.body_ok THEN 500
    ELSE IF r.message = "" \/ TextLen(r.message) > 2000 THEN 400
    ELSE IF ~apiKey THEN 500
    ELSE IF r.result.raised # "-" THEN 500
    ELSE IF r.result.kind = "nochoices" THEN 502
    ELSE IF r.result.kind = "null" THEN 500
    ELSE IF r.result.content \in {"", " ", "  "} THEN 502
    ELSE 200

\* C7: POST /chat answers non-JSON with 400, an empty or over-long message
\* with 400, a missing API key with 500, an LLM response without choices or
\* with an empty reply with 502, any exception with 500, and 200 with
\* success=true only together with a non-empty reply.
C7_StatusMapping ==
    \A p \in Chats :
        LET r == proc[p] IN
        r.pc = "done" =>
            /\ r.status = C7_Status(r)
            /\ r.success = (r.status = 200)
            /\ r.status = 200 => r.reply # ""

\* C7 witness: a request answered 500 because the timeout survived the
\* retries of the final call.
C7_Witness ==
    \E p \in Chats :
        /\ proc[p].pc = "done"
        /\ proc[p].status = 500
        /\ proc[p].result.raised = "Timeout"
        /\ proc[p].nposts = 2

\* No handler is in the middle of a RedisDB method
Quiescent == \A p \in Procs : Free(p)

\* C8: with Redis available, every existing conversation:<id> with
\* student_id s has <id> in student_conversations:s for as long as the
\* conversation key exists, also after appends that refresh its TTL.
C8_IndexConsistent ==
    (available /\ faults = 0 /\ Quiescent) =>
        \A id \in ConvIds :
            conv[id].exists =>
                /\ sidx[conv[id].student_id].exists
                /\ id \in sidx[conv[id].student_id].members

AddCalls == {p \in Procs : proc[p].op = "add_message_to_conversation"}

\* C9: add_message_to_conversation is a GET followed later by a SET of what
\* the GET read plus the one new message: the SET returns True and replaces
\* whatever another call has stored in between, and message_count is the
\* length of the list written, not the number of successful appends.
C9_GetThenSet ==
    [][\A p \in AddCalls :
          (proc[p].pc = "am_set" /\ proc'[p].pc = "done") =>
              LET r == proc[p]
                  c == conv'[r.session_id]
              IN  /\ proc'[p].success
                  /\ c.messages = Append(r.snap.messages, Msg(r.role, r.content))
                  /\ c.message_count = Len(r.snap.messages) + 1]_vars

\* C9 witness: the lost update.  Both calls on one conversation returned
\* True and the transcript holds one message.
C9_LostUpdate ==
    \E id \in ConvIds :
        /\ \A p \in Procs :
              /\ proc[p].op = "add_message_to_conversation"
              /\ proc[p].pc = "done"
              /\ proc[p].session_id = id
              /\ proc[p].writes = <<TRUE>>
        /\ conv[id].exists
        /\ conv[id].message_count = 1
        /\ Len(conv[id].messages) = 1

\* A handler executes DEL conversation:<id> in this step
Deleting(id) ==
    \E p \in Procs : /\ proc[p].pc = "ds_del"
                     /\ proc[p].session_id = id
                     /\ proc'[p].pc = "done"

\* C10: every write of a conversation key sets its expiry to 30 days from
\* the write, a conversation key disappears only when that expiry is reached
\* or by an explicit delete, and student records are written with a 365-day
\* expiry.
C10_FixedTtl ==
    [][/\ \A id \in ConvIds :
            /\ (conv'[id] # conv[id] /\ conv'[id].exists) =>
                   conv'[id].exp = now + 86400 * 30
            /\ (conv[id].exists /\ ~conv'[id].exists) =>
                   (now' >= conv[id].exp \/ Deleting(id))
       /\ \A s \in Students :
            (students'[s] # students[s] /\ students'[s].exists) =>
                students'[s].exp = now + 86400 * 365]_vars

\* C10 witness: a conversation created earlier whose append has refreshed
\* its expiry to 30 days from now, beside a stored student record.
C10_Witness ==
    /\ \E id \in ConvIds :
          /\ conv[id].exists
          /\ conv[id].message_count > 0
          /\ conv[id].created_at < now
          /\ conv[id].exp = now + 86400 * 30
    /\ \E s \in Students : students[s].exists

\* The calls of get_student_conversations that have returned while the clock
\* stood still
Listed == {p \in Procs : /\ proc[p].op = "get_student_conversations"
                         /\ proc[p].pc = "done"
                         /\ proc[p].started = now}

\* The ids of the conversations in a returned list
IdsOf(convs) == {convs[i].id : i \in 1..Len(convs)}

\* The conversation keys that exist with student_id s
StoredFor(s) == {id \in ConvIds : conv[id].exists /\ conv[id].student_id = s}

\* C11: get_student_conversations(s) returns every conversation that exists
\* with student_id s and no conversation of another student, whatever the
\* index set student_conversations:s holds.
C11_ReturnsAllConversations ==
    \A p \in Listed :
        available => IdsOf(proc[p].convs) = StoredFor(proc[p].student_id)

\* The delete calls and DELETE requests that reported success
Deleted == {p \in Procs : /\ proc[p].op \in {"delete_conversation", "delete_session"}
                          /\ proc[p].pc = "done"
                          /\ proc[p].success}

\* C12: after a conversation has been deleted successfully, by
\* delete_conversation or by DELETE /api/sessions/<id>, its key no longer
\* exists and its id is no longer in the owning student's index set.
C12_DeleteUpdatesIndex ==
    \A p \in Deleted :
        LET r == proc[p] IN
        /\ ~conv[r.session_id].exists
        /\ r.deleted.exists =>
              r.session_id \notin sidx[r.deleted.student_id].members

Logins == {p \in Procs : proc[p].op = "login" /\ proc[p].pc = "done"}

\* What C13 says POST /api/login answers to each student_id sent, for the
\* configured groups: group_a (original) lists S1, group_b (srl) lists S2
LoginExpected(raw) ==
    CASE raw \in {"", "  "} ->
            [status |-> 400, id |-> "-", group |-> "-", llm_type |-> "-"]
      [] raw = " s1 " ->
            [status |-> 200, id |-> "S1", group |-> "group_a", llm_type |-> "original"]
      [] raw = "S2" ->
            [status |-> 200, id |-> "S2", group |-> "group_b", llm_type |-> "srl"]
      [] OTHER ->
            [status |-> 404, id |-> "S3", group |-> "-", llm_type |-> "-"]

\* C13: POST /api/login trims and upper-cases the student id and answers 400
\* to an empty id, 404 to an id listed in no group (writing no student
\* record, as for every refusal), 200 success=true with the group_id and
\* llm_type of the id's group, and 500 when an exception is raised.
C13_LoginMapping ==
    \A p \in Logins :
        LET r == proc[p]
            x == LoginExpected(r.raw_id)
        IN  IF ~r.body_ok
            THEN r.status = 500 /\ ~r.success /\ r.cmds = 0
            ELSE /\ r.status = x.status
                 /\ r.success = (x.status = 200)
                 /\ r.status = 200 =>
                       /\ r.student_id = x.id
                       /\ r.group = x.group
                       /\ r.llm_type = x.llm_type
                 /\ r.status # 200 => r.cmds = 0

\* C13 witness: the second login of ' s1 ', answered 200 for S1 in group_a,
\* has stored the record with login_count 2.
C13_Witness ==
    \E p \in Logins :
        /\ proc[p].raw_id = " s1 "
        /\ proc[p].status = 200
        /\ proc[p].group = "group_a"
        /\ students["S1"].exists
        /\ students["S1"].login_count = 2

SessionLists == {p \in Procs : proc[p].op = "get_sessions" /\ proc[p].pc = "done"}

\* C14: GET /api/sessions?student_id=s answers 400 without student_id and
\* otherwise returns exactly the stored conversations whose student_id is s,
\* never one of another student, ordered from the newest created_at to the
\* oldest.
C14_SessionsOfStudent ==
    \A p \in SessionLists :
        LET r == proc[p]
            n == Len(r.convs)
        IN  IF r.student_id \notin Students
            THEN r.status = 400 /\ ~r.success /\ r.convs = <<>>
            ELSE /\ r.status = 200
                 /\ r.success
                 /\ \A i \in 1..n : r.convs[i].student_id = r.student_id
                 /\ \A i, j \in 1..n :
                       i < j => r.convs[i].created_at >= r.convs[j].created_at
                 /\ (available /\ r.started = now) =>
                       /\ IdsOf(r.convs) = StoredFor(r.student_id)
                       /\ n = Cardinality(StoredFor(r.student_id))

\* C14 witness: a list of two conversations of one student, the newer first.
C14_Witness ==
    \E p \in SessionLists :
        /\ Len(proc[p].convs) = 2
        /\ proc[p].convs[1].created_at > proc[p].convs[2].created_at
        /\ proc[p].convs[1].id = "c2"

\* The members of student_conversations:s, none when the key does not exist
IndexOf(s) == IF sidx[s].exists THEN sidx[s].members ELSE {}

\* C20: get_student_conversations runs the KEYS fallback exactly when the
\* index lookup found no live conversation, and after the fallback
\* student_conversations:s holds the id of every existing conversation with
\* student_id s and of no other, with an expiry of 30 days.
C20_FallbackRebuildsIndex ==
    \A p \in Listed :
        LET r == proc[p]
            s == r.student_id
        IN  available =>
              /\ r.fallback = (\A id \in r.conv_ids : ~conv[id].exists)
              /\ r.fallback =>
                    /\ IndexOf(s) = StoredFor(s)
                    /\ IdsOf(r.convs) = StoredFor(s)
                    /\ StoredFor(s) # {} => sidx[s].exp = now + 86400 * 30
                    /\ StoredFor(s) = {} => ~sidx[s].exists

\* C20 witness: the index of s had expired; the fallback found the live
\* conversation of s beside one of another student and rebuilt the index.
C20_Witness ==
    \E p \in Listed :
        LET s == proc[p].student_id IN
        /\ proc[p].fallback
        /\ proc[p].conv_ids = {}
        /\ IndexOf(s) # {}
        /\ \E id \in ConvIds : conv[id].exists /\ conv[id].student_id # s

\* C19: when get_student_conversations(s) has returned, no id of a
\* non-existent conversation is left in student_conversations:s, and no id
\* the index held for a conversation that still exists has been removed,
\* also when the GET for it failed.
C19_RemovesOnlyExpired ==
    \A p \in Listed :
        LET r == proc[p]
            s == r.student_id
        IN  available =>
              /\ \A id \in IndexOf(s) : conv[id].exists
              /\ \A id \in r.conv_ids : conv[id].exists => id \in IndexOf(s)

\* The instruction text a guidance call yields: its stripped content, or the
\* given default when the call raised or its result is not usable
Yield(call, default) ==
    IF call.result.raised = "-" /\ call.result.kind = "ok"
    THEN <<Strip(call.result.content)>>
    ELSE default

\* C15: for llm_type 'srl_and_ethics' the calls of one request are, in this
\* order, the ethics guidance call, the SRL adjustment call carrying the
\* ethics instruction of step 1, and the final-answer call carrying the
\* instruction of step 2; a step starts only when the one before has
\* returned or failed.
C15_ThreeStepCascade ==
    \A p \in Chats :
        LET r == proc[p]
            n == Len(r.calls)
        IN  r.llm_type = "srl_and_ethics" =>
              /\ n <= 3
              /\ LlmFinished(r) => n = 3
              /\ n >= 1 =>
                   /\ r.calls[1].stage = "ethics_agent"
                   /\ r.calls[1].messages[1] = Msg("system", "ethics_agent")
              /\ n >= 2 =>
                   /\ r.calls[1].done
                   /\ r.calls[2].stage = "srl_adjust"
                   /\ r.calls[2].messages[1] = Msg("system", "srl_adjust")
                   /\ r.calls[2].instr = Yield(r.calls[1], <<"DEFAULT_ETHICS">>)
              /\ n >= 3 =>
                   /\ r.calls[2].done
                   /\ r.calls[3].stage = "answer"
                   /\ r.calls[3].messages[1] = Msg("system", "srl_ethics_final")
                   /\ r.calls[3].instr =
                         Yield(r.calls[2], Append(r.calls[2].instr, "SRL_SUFFIX"))

\* C15 witness: the three calls of an 'srl_and_ethics' request have all
\* answered, each step carrying the text of the one before.
C15_Witness ==
    \E p \in Chats :
        /\ proc[p].llm_type = "srl_and_ethics"
        /\ LlmFinished(proc[p])
        /\ Len(proc[p].calls) = 3
        /\ \A i \in 1..3 : proc[p].calls[i].result.kind = "ok"
        /\ proc[p].calls[2].instr = <<"t1">>
        /\ proc[p].calls[3].instr = <<"t1">>

\* The fixed instruction used when the guidance call of this stage fails
FallbackInstruction(call) ==
    CASE call.stage = "srl_agent" -> <<"DEFAULT_SRL">>
      [] call.stage = "ethics_agent" -> <<"DEFAULT_ETHICS">>
      [] OTHER -> Append(call.instr, "SRL_SUFFIX")

Unusable(res) == res.raised # "-" \/ res.kind # "ok"

\* C16: a guidance call that raises (or whose result cannot be used) is
\* followed by the next call with the fixed default instruction (for the SRL
\* adjustment: the ethics instruction plus the fixed suffix), and a request
\* of a workflow ends in an error only after its final-answer call.
C16_GuidanceFailureTolerated ==
    \A p \in Chats :
        LET r == proc[p]
            n == Len(r.calls)
        IN  r.llm_type \in {"srl", "ai_ethics", "srl_and_ethics"} =>
              /\ \A i \in 1..n :
                    (r.calls[i].stage # "answer" /\ r.calls[i].done
                        /\ Unusable(r.calls[i].result)) =>
                       /\ i < n
                       /\ r.calls[i + 1].instr = FallbackInstruction(r.calls[i])
              /\ (r.pc = "done" /\ n > 0) =>
                    /\ r.calls[n].stage = "answer"
                    /\ r.calls[n].done
                    /\ r.status # 200
                    /\ \/ Unusable(r.calls[n].result)
                       \/ Strip(r.calls[n].result.content) = ""

\* C16 witness: both guidance calls of an 'srl_and_ethics' request raised,
\* the final call ran with the default ethics text plus the suffix and
\* answered.
C16_Witness ==
    \E p \in Chats :
        /\ proc[p].llm_type = "srl_and_ethics"
        /\ LlmFinished(proc[p])
        /\ Len(proc[p].calls) = 3
        /\ proc[p].calls[1].result.raised = "Timeout"
        /\ proc[p].calls[2].result.raised = "RequestException"
        /\ proc[p].calls[3].instr = <<"DEFAULT_ETHICS", "SRL_SUFFIX">>
        /\ proc[p].calls[3].result.kind = "ok"

\* C17: the message list a chat request hands to the LLM ends with the user
\* message of that request, after any earlier requests on the session and in
\* every interleaving of concurrent requests on it.
C17_EndsWithCurrentMessage ==
    \A p \in Chats :
        LET r == proc[p]
            n == Len(r.messages)
        IN  n > 0 => r.messages[n] = Msg("user", r.message)

\* ------------------------------------------------------------------------
\* Redis unavailable
\* ------------------------------------------------------------------------
EmptyStore ==
    /\ conv = [id \in ConvIds |-> NoConv]
    /\ sidx = [s \in Students |-> NoSet]
    /\ students = [s \in Students |-> NoStudent]
    /\ stats = [s \in Students |-> NoStats]

\* What a finished call has handed back while Redis is unavailable
OfflineResult(r) ==
    CASE r.op = "chat" ->
            /\ r.status = C7_Status(r)
            /\ r.success = (r.status = 200)
            /\ r.status = 200 =>
                  /\ r.reply # ""
                  /\ r.session_id \in issued
                  /\ r.client_sid # NoId => r.session_id = r.client_sid
      [] r.op = "login" ->
            /\ r.status = LoginExpected(r.raw_id).status
            /\ r.success = (r.status = 200)
      [] r.op = "get_student_conversations" -> r.convs = <<>>
      [] r.op = "get_sessions" ->
            r.convs = <<>> /\ r.status = (IF r.student_id = "-" THEN 400 ELSE 200)
      [] r.op = "delete_conversation" -> ~r.success
      [] OTHER -> r.success

\* C18: while Redis is unavailable no RedisDB method issues a command and
\* nothing is stored; get_conversation returns None, so the list POST /chat
\* hands to the LLM is the current user message alone;
\* get_student_conversations and get_all_conversations return []; and
\* POST /chat and POST /api/login answer as they do with Redis: a valid chat
\* with a usable LLM answer gets 200, the reply and a session_id (a new one
\* when the client sent none), a configured student logs in with 200.
C18_WorksWithoutRedis ==
    ~available =>
        /\ EmptyStore
        /\ \A p \in Procs :
              LET r == proc[p] IN
              /\ r.cmds = 0
              /\ (r.op = "chat" /\ r.pc = "http") =>
                    r.messages = <<Msg("user", r.message)>>
              /\ r.pc = "done" => OfflineResult(r)

\* C18 witness: with Redis unavailable a chat that sent no session_id has
\* been answered 200 with the reply and a session_id, nothing was stored and
\* no command was issued.
C18_Witness ==
    /\ ~available
    /\ EmptyStore
    /\ \E p \in Chats :
          /\ proc[p].pc = "done"
          /\ proc[p].client_sid = NoId
          /\ proc[p].status = 200
          /\ proc[p].reply = "t1"
          /\ proc[p].session_id \in ConvIds
          /\ proc[p].cmds = 0

====
